---- MODULE Spec2Model ----
(***************************************************************************)
(* Model of src/main.py: the /overlay handler overlay_text, which fetches  *)
(* a video, decodes it frame by frame, draws a wrapped prompt on every     *)
(* frame and re-encodes the result, and its helper hex_to_rgb.             *)
(*                                                                         *)
(* Strings are sequences of one-character strings.  An optional request    *)
(* field (Python None or a value) is <<>> or <<v>>.  font_scale is held in *)
(* hundredths (149 is 1.49), so font_scale * 20 is font_scale100 / 5.      *)
(***************************************************************************)
EXTENDS Integers, Sequences, FiniteSets, TLC

VARIABLES
    pc,          \* position in overlay_text
    req,         \* the VideoPrompt request
    status,      \* HTTP status of the response (0: none yet)
    failure,     \* the exception that ended the job ("" when none)
    fetched,     \* requests.get was issued
    tmpFiles,    \* temporary files present on disk
    tmpCreated,  \* temporary files ever created by the job
    handles,     \* capture/writer objects created and not released
    capTried,    \* cv2.VideoCapture(video_path) was called
    outOpened,   \* the VideoWriter opened its file successfully
    video,       \* what the capture decodes: width, height, fps, frames
    writerProps, \* fps and frame size handed to the VideoWriter
    nread,       \* frames returned by cap.read() so far
    sink,        \* frames handed to out.write(), in call order
    outFile,     \* frames the writer encoded into the output file
    linhas,      \* wrapped lines of the prompt
    font_size,   \* int(font_scale * 20)
    fonte_pil,   \* resolved font
    line_height, \* ascent + descent
    base_y,      \* y of the first line
    color,       \* hex_to_rgb(text_color)
    returned     \* files handed to the caller in the response

vars == <<pc, req, status, failure, fetched, tmpFiles, tmpCreated, handles,
          capTried, outOpened, video, writerProps, nread, sink, outFile,
          linhas, font_size, fonte_pil, line_height, base_y, color, returned>>

(***************************** bounds **************************************)
MaxFrames == 2
MaxPromptLen == 5
MaxWidth == 3
MaxColorLen == 8
MaxScale == 160

(************************** program constants ******************************)
line_gap == 10
BottomMargin == 50
FontUnit == 20

(***************************** strings *************************************)
RECURSIVE StringsUpTo(_, _)
StringsUpTo(alphabet, n) ==
    IF n = 0 THEN {<<>>}
    ELSE LET shorter == StringsUpTo(alphabet, n - 1)
         IN  shorter \cup {Append(s, c) : s \in shorter, c \in alphabet}

DropFirst(s, n) == SubSeq(s, n + 1, Len(s))

\* Python slice s[lo:hi] for 0 <= lo <= hi, clipped to the string
Slice(s, lo, hi) ==
    SubSeq(s, lo + 1, IF hi < Len(s) THEN hi ELSE Len(s))

Max2(a, b) == IF a >= b THEN a ELSE b

(*************************** hex_to_rgb ************************************)
HexLower == <<"0", "1", "2", "3", "4", "5", "6", "7", "8", "9",
              "a", "b", "c", "d", "e", "f">>
HexUpper == <<"0", "1", "2", "3", "4", "5", "6", "7", "8", "9",
              "A", "B", "C", "D", "E", "F">>

IsHexDigit(c) ==
    \E i \in 1..16 : HexLower[i] = c \/ HexUpper[i] = c

HexVal(c) ==
    (CHOOSE i \in 1..16 : HexLower[i] = c \/ HexUpper[i] = c) - 1

\* str.lstrip('#'): every leading '#' is removed, not just one
RECURSIVE LStripHash(_)
LStripHash(s) ==
    IF s # <<>> /\ Head(s) = "#" THEN LStripHash(Tail(s)) ELSE s

\* str.strip() on the slices int() receives (blank is the only whitespace modelled)
RECURSIVE LStripBlank(_)
LStripBlank(s) ==
    IF s # <<>> /\ Head(s) = " " THEN LStripBlank(Tail(s)) ELSE s

RECURSIVE RStripBlank(_)
RStripBlank(s) ==
    IF s # <<>> /\ s[Len(s)] = " " THEN RStripBlank(SubSeq(s, 1, Len(s) - 1)) ELSE s

RECURSIVE DigitsValue(_)
DigitsValue(s) ==
    IF s = <<>> THEN 0
    ELSE 16 * DigitsValue(SubSeq(s, 1, Len(s) - 1)) + HexVal(s[Len(s)])

\* Python int(s, 16) for the slices of at most two characters hex_to_rgb
\* passes: surrounding whitespace is stripped, one sign is allowed, a 0x
\* prefix is allowed, and then at least one hex digit must follow (an
\* underscore separator needs three characters, so it never parses here).
PyIntBase16(s) ==
    LET t      == RStripBlank(LStripBlank(s))
        signed == t # <<>> /\ Head(t) \in {"+", "-"}
        u      == IF signed THEN Tail(t) ELSE t
        pref   == Len(u) >= 2 /\ u[1] = "0" /\ u[2] \in {"x", "X"}
        d      == IF pref THEN DropFirst(u, 2) ELSE u
        good   == d # <<>> /\ \A i \in 1..Len(d) : IsHexDigit(d[i])
        mag    == IF good THEN DigitsValue(d) ELSE 0
    IN  [ok  |-> good,
         val |-> IF signed /\ Head(t) = "-" THEN 0 - mag ELSE mag]

hex_to_rgb(hex_color) ==
    LET h == LStripHash(hex_color)
        r == PyIntBase16(Slice(h, 0, 2))
        g == PyIntBase16(Slice(h, 2, 4))
        b == PyIntBase16(Slice(h, 4, 6))
    IN  IF r.ok /\ g.ok /\ b.ok
        THEN [err |-> "", rgb |-> <<r.val, g.val, b.val>>]
        ELSE [err |-> "ValueError", rgb |-> <<>>]

\* "#%02x%02x%02x" of the specification's to_hex
to_hex(r, g, b) ==
    <<"#", HexLower[(r \div 16) + 1], HexLower[(r % 16) + 1],
           HexLower[(g \div 16) + 1], HexLower[(g % 16) + 1],
           HexLower[(b \div 16) + 1], HexLower[(b % 16) + 1]>>

(************************** textwrap.wrap **********************************)
IsBlank(chunk) == \A i \in 1..Len(chunk) : chunk[i] = " "

\* length of the longest prefix of s whose characters are all blank (ws = TRUE)
\* or all non-blank (ws = FALSE)
RECURSIVE RunLen(_, _)
RunLen(s, ws) ==
    IF s = <<>> \/ ((Head(s) = " ") # ws) THEN 0 ELSE 1 + RunLen(Tail(s), ws)

\* TextWrapper._split: maximal runs of whitespace and of non-whitespace
\* (the prompts modelled hold no '-', so no hyphen split point exists)
RECURSIVE SplitChunks(_)
SplitChunks(text) ==
    IF text = <<>> THEN <<>>
    ELSE LET n == RunLen(text, Head(text) = " ")
         IN  <<SubSeq(text, 1, n)>> \o SplitChunks(DropFirst(text, n))

RECURSIVE SumLen(_)
SumLen(chunks) ==
    IF chunks = <<>> THEN 0 ELSE Len(Head(chunks)) + SumLen(Tail(chunks))

RECURSIVE Concat(_)
Concat(chunks) ==
    IF chunks = <<>> THEN <<>> ELSE Head(chunks) \o Concat(Tail(chunks))

\* the inner while of _wrap_chunks: how many leading chunks fit on the line
RECURSIVE FitCount(_, _)
FitCount(chunks, room) ==
    IF chunks = <<>> \/ Len(Head(chunks)) > room THEN 0
    ELSE 1 + FitCount(Tail(chunks), room - Len(Head(chunks)))

\* TextWrapper._handle_long_word with break_long_words = True (the default):
\* the part of the chunk that fits the space left on the line
LongWordCut(chunk, cur_len, width) ==
    IF width < 1 THEN 1 ELSE width - cur_len

\* the outer while of _wrap_chunks (drop_whitespace = True, no indent,
\* max_lines = None); chunks are in reading order
RECURSIVE WrapChunks(_, _, _)
WrapChunks(chunks, lines, width) ==
    IF chunks = <<>> THEN lines
    ELSE
      LET c1    == IF IsBlank(Head(chunks)) /\ lines # <<>>
                   THEN Tail(chunks) ELSE chunks
          k     == FitCount(c1, width)
          cur   == SubSeq(c1, 1, k)
          rest  == DropFirst(c1, k)
          long  == rest # <<>> /\ Len(Head(rest)) > width
          cut   == IF long THEN LongWordCut(Head(rest), SumLen(cur), width) ELSE 0
          cur2  == IF long THEN Append(cur, SubSeq(Head(rest), 1, cut)) ELSE cur
          rest2 == IF long
                   THEN <<DropFirst(Head(rest), cut)>> \o Tail(rest)
                   ELSE rest
          cur3  == IF cur2 # <<>> /\ IsBlank(cur2[Len(cur2)])
                   THEN SubSeq(cur2, 1, Len(cur2) - 1) ELSE cur2
          out   == IF cur3 # <<>> THEN Append(lines, Concat(cur3)) ELSE lines
      IN  WrapChunks(rest2, out, width)

\* textwrap.wrap(text, width=width): ValueError when width <= 0
textwrap_wrap(text, width) ==
    IF width <= 0
    THEN [err |-> "ValueError", lines |-> <<>>]
    ELSE [err |-> "", lines |-> WrapChunks(SplitChunks(text), <<>>, width)]

\* lines 71-74
wrap_lines(prompt, max_chars) ==
    IF max_chars # <<>>
    THEN textwrap_wrap(prompt, max_chars[1])
    ELSE [err |-> "", lines |-> <<prompt>>]

(**************************** the request **********************************)
Str_ab      == <<"a", "b">>
Str_ab_cd_e == <<"a", "b", " ", "c", "d", " ", "e">>
White       == <<"#", "f", "f", "f", "f", "f", "f">>
Green       == <<"0", "0", "f", "f", "0", "0">>
BadColor    == <<"#", "z", "z", "z", "z", "z", "z">>

\* class VideoPrompt; video_url and font are opaque to the handler
VideoPrompt(prompt, pos_x, pos_y, font_scale, thickness, text_color, max_chars) ==
    [video_url  |-> "url",
     prompt     |-> prompt,
     pos_x      |-> pos_x,
     pos_y      |-> pos_y,
     font_scale |-> font_scale,
     thickness  |-> thickness,
     text_color |-> text_color,
     font       |-> "arial.ttf",
     max_chars  |-> max_chars]

DefaultPrompt == VideoPrompt(Str_ab, <<>>, <<>>, 100, 2, White, <<>>)

PipelineRequests ==
    {VideoPrompt(p, x, y, fs, 2, c, m) :
        p \in {<<>>, Str_ab, Str_ab_cd_e},
        x \in {<<>>, <<5>>},
        y \in {<<>>, <<7>>},
        fs \in {4, 100, 149},
        c \in {White, Green, BadColor},
        m \in {<<>>, <<0>>, <<2>>}}

WrapRequests ==
    {[DefaultPrompt EXCEPT !.prompt = p, !.max_chars = m] :
        p \in StringsUpTo({"a", "b", " "}, MaxPromptLen),
        m \in {<<>>} \cup {<<w>> : w \in 0..MaxWidth}}

FontRequests ==
    {[DefaultPrompt EXCEPT !.font_scale = fs] : fs \in 1..MaxScale}

ColorRequests ==
    {[DefaultPrompt EXCEPT !.text_color = c] :
        c \in StringsUpTo({"#", "0", "f", "z"}, MaxColorLen)}

(************************** the environment ********************************)
NoVideo == [width |-> 0, height |-> 0, fps |-> 0, frames |-> <<>>]

\* what cv2.VideoCapture can decode from the downloaded file
Videos ==
    {[width |-> 320, height |-> 240, fps |-> 30, frames |-> f] :
        f \in StringsUpTo({0, 1}, MaxFrames)}

NoFont == [kind |-> "none", size |-> 0, ascent |-> 0, descent |-> 0, charw |-> 0]

\* (ascent, descent) of getmetrics() and the advance of one character
FontMetrics ==
    {[ascent |-> 15, descent |-> 4, charw |-> 9],
     [ascent |-> 9, descent |-> 2, charw |-> 200]}

(***************************** overlay *************************************)
\* lines 113-114: bbox[2] - bbox[0] of draw.textbbox((0, 0), linha, font)
TextWidth(linha, fonte) == Len(linha) * fonte.charw

\* line 115; frame is the decoded frame the line is drawn on
LineXFrameDependent(r, v, fonte, linha, frame) ==
    IF r.pos_x # <<>> THEN r.pos_x[1] + frame
    ELSE (v.width - TextWidth(linha, fonte)) \div 2 + frame

LineX(r, v, fonte, linha, frame) ==
    IF r.pos_x # <<>> THEN r.pos_x[1]
    ELSE (v.width - TextWidth(linha, fonte)) \div 2

\* line 116; i counts from 0 as enumerate does
LineY(by, lh, i) == by + i * (lh + line_gap)

\* lines 91-95
BlockY(r, v, n, lh) ==
    IF r.pos_y = <<>>
    THEN v.height - (n * lh + (n - 1) * line_gap) - BottomMargin
    ELSE r.pos_y[1]

\* lines 107-122: the frame with every line drawn on it
apply_overlay(frame, r, v, lines, fonte, by, lh, fill) ==
    [base   |-> frame,
     fill   |-> fill,
     stroke |-> r.thickness,
     draws  |-> [j \in 1..Len(lines) |->
                   [x    |-> LineX(r, v, fonte, lines[j], frame),
                    y    |-> LineY(by, lh, j - 1),
                    text |-> lines[j]]]]

\* line 123: out.write(frame_bgr)
WriteFrame(frames, f) == Append(frames, f)

\* line 80: int(font_scale * 20), font_scale in hundredths and positive
FontSize(font_scale) == (font_scale * FontUnit) \div 100

(***************************** the job *************************************)
InitWith(r, p) ==
    /\ pc = p
    /\ req = r
    /\ status = 0
    /\ failure = ""
    /\ fetched = FALSE
    /\ tmpFiles = {}
    /\ tmpCreated = {}
    /\ handles = {}
    /\ capTried = FALSE
    /\ outOpened = FALSE
    /\ video = NoVideo
    /\ writerProps = NoVideo
    /\ nread = 0
    /\ sink = <<>>
    /\ outFile = <<>>
    /\ linhas = <<>>
    /\ font_size = 0
    /\ fonte_pil = NoFont
    /\ line_height = 0
    /\ base_y = 0
    /\ color = <<>>
    /\ returned = {}

Init == \E r \in PipelineRequests : InitWith(r, "start")

\* an exception leaves overlay_text: HTTPException(code), or 500 when unhandled
Raise(reason, code) ==
    /\ pc' = "Failed"
    /\ failure' = reason
    /\ status' = code

\* lines 37-42
Fetch ==
    /\ pc = "start"
    /\ fetched' = TRUE
    /\ \E outcome \in {"raises", "status404", "ok"} :
          IF outcome = "ok"
          THEN pc' = "save" /\ UNCHANGED <<failure, status>>
          ELSE Raise(IF outcome = "raises" THEN "RequestException" ELSE "BadStatus", 400)
    /\ UNCHANGED <<req, tmpFiles, tmpCreated, handles, capTried, outOpened, video,
                   writerProps, nread, sink, outFile, linhas, font_size, fonte_pil,
                   line_height, base_y, color, returned>>

\* lines 45-50: the file is created with delete=False, then the body is streamed
SaveBody ==
    /\ pc = "save"
    /\ tmpFiles' = tmpFiles \cup {"in"}
    /\ tmpCreated' = tmpCreated \cup {"in"}
    /\ \E streamed \in BOOLEAN :
          IF streamed
          THEN pc' = "open" /\ UNCHANGED <<failure, status>>
          ELSE Raise("BodyStreamError", 500)
    /\ UNCHANGED <<req, fetched, handles, capTried, outOpened, video,
                   writerProps, nread, sink, outFile, linhas, font_size, fonte_pil,
                   line_height, base_y, color, returned>>

\* lines 53-55
OpenCapture ==
    /\ pc = "open"
    /\ capTried' = TRUE
    /\ \E v \in Videos \cup {NoVideo} :
          IF v = NoVideo
          THEN /\ Raise("UnreadableSource", 500)
               /\ UNCHANGED <<video, handles>>
          ELSE /\ video' = v
               /\ handles' = handles \cup {"cap"}
               /\ pc' = "sink"
               /\ UNCHANGED <<failure, status>>
    /\ UNCHANGED <<req, fetched, tmpFiles, tmpCreated, outOpened,
                   writerProps, nread, sink, outFile, linhas, font_size, fonte_pil,
                   line_height, base_y, color, returned>>

\* lines 58-68: isOpened() of the writer is never consulted
OpenSink ==
    /\ pc = "sink"
    /\ tmpFiles' = tmpFiles \cup {"out"}
    /\ tmpCreated' = tmpCreated \cup {"out"}
    /\ writerProps' = [video EXCEPT !.frames = <<>>]
    /\ \E opened \in BOOLEAN :
          /\ outOpened' = opened
          /\ handles' = IF opened THEN handles \cup {"out"} ELSE handles
    /\ pc' = "wrap"
    /\ UNCHANGED <<req, status, failure, fetched, capTried, video,
                   nread, sink, outFile, linhas, font_size, fonte_pil,
                   line_height, base_y, color, returned>>

\* lines 71-74
WrapLines ==
    /\ pc = "wrap"
    /\ LET w == wrap_lines(req.prompt, req.max_chars)
       IN  IF w.err = ""
           THEN linhas' = w.lines /\ pc' = "font" /\ UNCHANGED <<failure, status>>
           ELSE Raise(w.err, 500) /\ UNCHANGED linhas
    /\ UNCHANGED <<req, fetched, tmpFiles, tmpCreated, handles, capTried, outOpened,
                   video, writerProps, nread, sink, outFile, font_size, fonte_pil,
                   line_height, base_y, color, returned>>

\* lines 80-88.  ImageFont.truetype rejects a size <= 0: with ValueError, which
\* the except IOError does not catch, or (older Pillow) with OSError from
\* FreeType, which it does.  A font that cannot be loaded raises OSError.
ResolveFont ==
    /\ pc = "font"
    /\ font_size' = FontSize(req.font_scale)
    /\ \E loaded \in BOOLEAN, m \in FontMetrics, sizeError \in {"ValueError", "OSError"} :
          IF font_size' <= 0 /\ sizeError = "ValueError"
          THEN /\ Raise("FontSizeValueError", 500)
               /\ UNCHANGED <<fonte_pil, line_height>>
          ELSE /\ fonte_pil' =
                     [kind    |-> IF loaded /\ font_size' > 0 THEN "truetype" ELSE "default",
                      size    |-> font_size',
                      ascent  |-> m.ascent,
                      descent |-> m.descent,
                      charw   |-> m.charw]
               /\ line_height' = m.ascent + m.descent
               /\ pc' = "base_y"
               /\ UNCHANGED <<failure, status>>
    /\ UNCHANGED <<req, fetched, tmpFiles, tmpCreated, handles, capTried, outOpened,
                   video, writerProps, nread, sink, outFile, linhas,
                   base_y, color, returned>>

\* lines 91-95
PlanBaseY ==
    /\ pc = "base_y"
    /\ base_y' = BlockY(req, video, Len(linhas), line_height)
    /\ pc' = "color"
    /\ UNCHANGED <<req, status, failure, fetched, tmpFiles, tmpCreated, handles,
                   capTried, outOpened, video, writerProps, nread, sink, outFile,
                   linhas, font_size, fonte_pil, line_height, color, returned>>

\* line 98
ParseColor ==
    /\ pc = "color"
    /\ LET c == hex_to_rgb(req.text_color)
       IN  IF c.err = ""
           THEN color' = c.rgb /\ pc' = "drain" /\ UNCHANGED <<failure, status>>
           ELSE Raise("ColorValueError", 500) /\ UNCHANGED color
    /\ UNCHANGED <<req, fetched, tmpFiles, tmpCreated, handles, capTried, outOpened,
                   video, writerProps, nread, sink, outFile, linhas, font_size,
                   fonte_pil, line_height, base_y, returned>>

\* lines 101-123, one pass of the loop: read, and either leave the loop at
\* end of stream or draw and write.  write() returns nothing and a writer
\* that did not open ignores it, so the frame is encoded only if it opened.
DrainStep ==
    /\ pc = "drain"
    /\ IF nread = Len(video.frames)
       THEN /\ pc' = "finalize"
            /\ UNCHANGED <<nread, sink, outFile>>
       ELSE LET frame == video.frames[nread + 1]
                drawn == apply_overlay(frame, req, video, linhas, fonte_pil,
                                       base_y, line_height, color)
            IN  /\ nread' = nread + 1
                /\ sink' = WriteFrame(sink, drawn)
                /\ outFile' = IF outOpened THEN WriteFrame(outFile, drawn) ELSE outFile
                /\ UNCHANGED pc
    /\ UNCHANGED <<req, status, failure, fetched, tmpFiles, tmpCreated, handles,
                   capTried, outOpened, video, writerProps, linhas, font_size,
                   fonte_pil, line_height, base_y, color, returned>>

\* lines 126-130
Finalize ==
    /\ pc = "finalize"
    /\ handles' = {}
    /\ tmpFiles' = tmpFiles \ {"in"}
    /\ returned' = {"out"}
    /\ status' = 200
    /\ pc' = "Completed"
    /\ UNCHANGED <<req, failure, fetched, tmpCreated, capTried, outOpened, video,
                   writerProps, nread, sink, outFile, linhas, font_size, fonte_pil,
                   line_height, base_y, color>>

Next ==
    \/ Fetch
    \/ SaveBody
    \/ OpenCapture
    \/ OpenSink
    \/ WrapLines
    \/ ResolveFont
    \/ PlanBaseY
    \/ ParseColor
    \/ DrainStep
    \/ Finalize

Spec == Init /\ [][Next]_vars

\* the pure steps on their own, over wider inputs
InitWrap == \E r \in WrapRequests : InitWith(r, "wrap")
SpecWrap == InitWrap /\ [][WrapLines]_vars

InitFont == \E r \in FontRequests : InitWith(r, "font")
SpecFont == InitFont /\ [][ResolveFont]_vars

InitColor == \E r \in ColorRequests : InitWith(r, "color")
SpecColor == InitColor /\ [][ParseColor]_vars

(***************************** claims **************************************)

\* C1: a failed job has released every capture and writer stream it opened
\* and deleted every temporary file it created.
C1_FailedJobLeaksNothing ==
    pc = "Failed" => tmpFiles = {} /\ handles = {}

\* C2: a request with an invalid text_color is rejected before any I/O: when
\* the colour is rejected no fetch was issued, no temporary file was created
\* and no capture or writer was opened.
C2_InvalidColorRejectedBeforeIO ==
    (pc = "Failed" /\ failure = "ColorValueError") =>
        /\ ~fetched
        /\ tmpCreated = {}
        /\ ~capTried
        /\ handles = {}

\* C3: every source-retrieval failure (the request raises, the status is not
\* 200, the body fails while streamed to disk) ends with HTTP 400 and leaves
\* no temporary file.
C3_SourceFailureIs400AndClean ==
    failure \in {"RequestException", "BadStatus", "BodyStreamError"} =>
        status = 400 /\ tmpFiles = {}

\* C4: no partial output is returned: a sink that failed to open fails the
\* job instead of completing it, and the output file is returned only when
\* every frame read from the source was encoded into it.
C4_NoPartialOutput ==
    /\ pc = "Completed" => outOpened
    /\ "out" \in returned =>
           (outFile = sink /\ Len(outFile) = nread /\ nread = Len(video.frames))

\* C5: the frames written to the sink correspond 1:1 and in order to the
\* frames read: the k-th frame in the output is the overlay of the k-th frame
\* read, after every pass of the loop as many frames were written as were
\* read (none dropped, duplicated or reordered), and the loop is left exactly
\* when the source is exhausted, for Finalize, with all N frames written.
C5_FramesOneToOneInOrder ==
    /\ Len(outFile) <= nread
    /\ nread <= Len(video.frames)
    /\ \A k \in 1..Len(outFile) :
          outFile[k] = apply_overlay(video.frames[k], req, video, linhas, fonte_pil,
                                     base_y, line_height, color)
    /\ pc \in {"drain", "finalize", "Completed"} => Len(outFile) = nread
    /\ pc \in {"finalize", "Completed"} => nread = Len(video.frames)

RECURSIVE JoinWithSpaces(_)
JoinWithSpaces(lines) ==
    IF lines = <<>> THEN <<>>
    ELSE IF Len(lines) = 1 THEN lines[1]
    ELSE lines[1] \o <<" ">> \o JoinWithSpaces(Tail(lines))

NotBlank(chunk) == ~IsBlank(chunk)

Words(text) == SelectSeq(SplitChunks(text), NotBlank)

\* C6: with max_chars present every line is at most max_chars long unless it
\* is a single word longer than max_chars, kept whole; and the lines joined
\* with spaces give back the prompt's word sequence.
C6_WrapKeepsWordsWhole ==
    (pc = "font" /\ req.max_chars # <<>>) =>
        /\ \A i \in 1..Len(linhas) :
              \/ Len(linhas[i]) <= req.max_chars[1]
              \/ Len(Words(linhas[i])) = 1
        /\ Words(JoinWithSpaces(linhas)) = Words(req.prompt)

\* C7: wrapping yields at least one line for every prompt, the empty one
\* included, with max_chars absent or present, and exactly [prompt] when
\* max_chars is absent.
C7_AtLeastOneLine ==
    pc = "font" =>
        /\ Len(linhas) >= 1
        /\ req.max_chars = <<>> => linhas = <<req.prompt>>

\* C8: the layout is fixed before the first frame is read and is the same on
\* every frame: line i is drawn at y_i = block_y + i * (line_height + 10) with
\* block_y = pos_y, else frame_height - (n * line_height + (n - 1) * 10) - 50,
\* and at x_i = pos_x, else centred from the line's measured width; none of
\* it varies with the frame.
C8_LayoutSameOnEveryFrame ==
    LET n       == Len(linhas)
        block_y == IF req.pos_y # <<>> THEN req.pos_y[1]
                   ELSE video.height - (n * line_height + (n - 1) * 10) - 50
    IN  /\ pc \in {"drain", "finalize", "Completed"} => base_y = block_y
        /\ \A k \in 1..Len(sink) :
              /\ Len(sink[k].draws) = n
              /\ \A j \in 1..n :
                    /\ sink[k].draws[j].text = linhas[j]
                    /\ sink[k].draws[j].y = block_y + (j - 1) * (line_height + 10)
                    /\ sink[k].draws[j].x =
                          IF req.pos_x # <<>> THEN req.pos_x[1]
                          ELSE (video.width - TextWidth(linhas[j], fonte_pil)) \div 2
        /\ \A k1, k2 \in 1..Len(sink) : sink[k1].draws = sink[k2].draws

C8_Witness ==
    /\ pc = "Completed"
    /\ req.pos_x = <<>>
    /\ req.pos_y = <<>>
    /\ Len(linhas) >= 2
    /\ Len(sink) >= 2
    /\ sink[1].base # sink[2].base

\* round(font_scale * 20) for font_scale in hundredths: font_scale / 5 is never
\* halfway between two integers
RoundScaled(font_scale) == (font_scale * 20 + 50) \div 100

\* C9: for a positive font_scale the size asked of the font resolver is
\* round(font_scale * 20) with a floor of 1, and font resolution never fails
\* the job.
C9_FontSizeRoundedWithFloor ==
    /\ failure # "FontSizeValueError"
    /\ pc = "base_y" => font_size = Max2(1, RoundScaled(req.font_scale))

ByteSamples == {0, 15, 240, 255}

\* C10: colour parsing accepts exactly an optional single '#' followed by six
\* hex digits, returns the bytes they encode, fails on every other string, and
\* round-trips with to_hex.
C10_ColorParsedExactly ==
    LET s    == req.text_color
        body == IF s # <<>> /\ Head(s) = "#" THEN Tail(s) ELSE s
        wf   == Len(body) = 6 /\ \A i \in 1..6 : IsHexDigit(body[i])
    IN  pc # "color" =>
          /\ IF wf
             THEN /\ pc = "drain"
                  /\ color = <<16 * HexVal(body[1]) + HexVal(body[2]),
                               16 * HexVal(body[3]) + HexVal(body[4]),
                               16 * HexVal(body[5]) + HexVal(body[6])>>
             ELSE pc = "Failed"
          /\ \A r, g, b \in ByteSamples :
                s = to_hex(r, g, b) => (pc = "drain" /\ color = <<r, g, b>>)

====
